---- MODULE Spec2Model ----
(***************************************************************************)
(* Model of ScoreBasedRouter (pkg/balance/router/router_score.go): the     *)
(* score-ordered backend list, selection (routeOnce / onCreateConn), the   *)
(* connection callbacks, health application and rebalance.                 *)
(*                                                                         *)
(* Every action is one critical section of the router mutex.  The data     *)
(* plane is modelled as a caller that follows the event-receiver contract: *)
(* Finish follows a successful Next for the returned backend, the redirect *)
(* callbacks arrive only for a connection whose redirect is in flight and  *)
(* name its current backend and its redirect target.                       *)
(***************************************************************************)
EXTENDS Integers, Sequences, FiniteSets, TLC

\* ------------------------------------------------------------------ bounds
NumAddrs == 2
MaxConns == 2
MaxPending == 1
MaxBurst == 3
MaxSpread == 5
MaxCloses == 2

\* -------------------------------------------------------- program constants
\* Declared in router.go; the values are those of the design document.
\* redirectFailMinInterval, in clock units of the model (one unit is 3 s).
redirectFailMinInterval == 1
rebalanceConnsPerLoop == 100
\* rebalanceMaxScoreRatio = 1.2, kept as the fraction RatioNum / RatioDen.
RatioNum == 6
RatioDen == 5

Addrs == 1..NumAddrs
ConnIds == 1..MaxConns
NoAddr == 0
NoConn == 0

StatusHealthy == "Healthy"
StatusCannotConnect == "CannotConnect"
StatusSchemaOutdated == "SchemaOutdated"

phaseNotRedirected == "NotRedirected"
phaseRedirectNotify == "RedirectNotify"
phaseRedirectEnd == "RedirectEnd"
phaseRedirectFail == "RedirectFail"

ErrNoBackend == "ErrNoBackend"
ErrObserve == "ErrObserve"
NoRet == "nil"
ErrPanic == "panic"
\* The router as NewScoreBasedRouter leaves it: cancelFunc nil, no control loop,
\* no Close under way.  closed counts the Close calls that have returned.  locked
\* says that rebalance holds the router's lock between conn.Redirect and the
\* assignment of redirectingBackend, for the connection conn and the target to.
\* chClosed says that the observer has closed router.healthCh.
NoLife ==
  [cancelFunc |-> FALSE, done |-> FALSE, loop |-> "none", close |-> "idle", closed |-> 0,
   locked |-> FALSE, conn |-> NoConn, to |-> NoAddr, chClosed |-> FALSE]
\* A backend server that listens, greets and answers 200 at once, with no
\* schema probe configured, and no Check made yet.
NoProbe ==
  [sql |-> TRUE, greeting |-> TRUE, http200 |-> TRUE, httpSlow |-> FALSE,
   version |-> "1.0", schema |-> "off", ctxDone |-> FALSE,
   checked |-> FALSE, health |-> [status |-> "Absent", ver |-> "", err |-> "nil"]]
NoMark == [kind |-> "none", bs |-> <<>>, cs |-> <<>>]

VARIABLES
  backends,       \* router.backends: the list of backendWrapper, head first
  conns,          \* the connWrapper of every connection id, and the data plane's view of it
  pending,        \* per address: Next reservations whose Finish has not been called yet
  observeError,   \* router.observeError # nil
  serverVersion,  \* router.serverVersion
  last,           \* what the last operation returned
  mark,           \* history: the list as it was when a round trip began, or NoMark
  life,           \* cancelFunc, the context, the control loop and the Close calls
  probe           \* a backend server as the health check sees it, and the last Check

vars == <<backends, conns, pending, observeError, serverVersion, last, mark, life, probe>>

\* ------------------------------------------------------------ data model
\* observer.BackendHealth; err stands for the identity of PingErr.
Health(status, ver, err) == [status |-> status, ver |-> ver, err |-> err]

\* A fresh backendWrapper.
NewBackend(addr, health) ==
  [addr |-> addr, health |-> health, connScore |-> 0, connList |-> <<>>]

\* A connection id that is not attached: the zero connWrapper.
FreeConn ==
  [live |-> FALSE, at |-> NoAddr, phase |-> phaseNotRedirected,
   sinceRedirect |-> redirectFailMinInterval,
   redirectingBackend |-> NoAddr, stale |-> FALSE]

\* The clock is only ever compared with lastRedirect + redirectFailMinInterval, so a
\* connWrapper keeps monotime.Now() - lastRedirect, counted up to that interval; the
\* zero lastRedirect of a connection never redirected lies further back than that.
Elapse(since) == IF since < redirectFailMinInterval THEN since + 1 ELSE since

\* backendWrapper.score(): attached connections plus reservations.
score(b) == Len(b.connList) + b.connScore

\* ------------------------------------------------------------ list helpers
Range(s) == {s[i] : i \in 1..Len(s)}

RECURSIVE SumSeq(_)
SumSeq(s) == IF s = <<>> THEN 0 ELSE Head(s) + SumSeq(Tail(s))

\* glist.Remove: the list without its element at position i.
RemoveAt(s, i) == SubSeq(s, 1, i - 1) \o SubSeq(s, i + 1, Len(s))

\* glist.MoveBefore / MoveAfter: the element at position i taken out and put at
\* position j of the resulting list.
MoveTo(s, i, j) ==
  LET rest == RemoveAt(s, i)
  IN SubSeq(rest, 1, j - 1) \o <<s[i]>> \o SubSeq(rest, j, Len(rest))

AddrsOf(bs) == {bs[i].addr : i \in 1..Len(bs)}

\* lookupBackend: the position of the element with this address, 0 for nil.  The
\* forward hint picks the first match from the head, the other direction the
\* first match from the tail.
lookupBackend(bs, addr, forward) ==
  LET hits == {i \in 1..Len(bs) : bs[i].addr = addr}
  IN IF hits = {} THEN 0
     ELSE IF forward THEN CHOOSE i \in hits : \A j \in hits : i <= j
     ELSE CHOOSE i \in hits : \A j \in hits : i >= j

\* Mutant of IsEmptyUnhealthy: a backend whose connScore is exactly 0 is kept.
IsEmptyUnhealthy_Strict(b) ==
  /\ b.health.status = StatusCannotConnect
  /\ Len(b.connList) = 0
  /\ b.connScore < 0

\* Mutant of IsEmptyUnhealthy: connScore is not looked at.
IsEmptyUnhealthy_IgnoreScore(b) ==
  /\ b.health.status = StatusCannotConnect
  /\ Len(b.connList) = 0

\* removeBackendIfEmpty's condition.
IsEmptyUnhealthy(b) ==
  /\ b.health.status = StatusCannotConnect
  /\ Len(b.connList) = 0
  /\ b.connScore <= 0

\* removeBackendIfEmpty(be): the list after it; it returns true when the list changed.
removeBackendIfEmpty(bs, i) == IF IsEmptyUnhealthy(bs[i]) THEN RemoveAt(bs, i) ELSE bs

\* Mutant of adjustBackendList: the scan towards the tail is missing, so an element
\* whose score dropped stays where it is.
adjustBackendList_HeadOnly(bs, i, removeEmpty) ==
  IF removeEmpty /\ removeBackendIfEmpty(bs, i) # bs THEN removeBackendIfEmpty(bs, i)
  ELSE
    LET curScore == score(bs[i])
        up == {j \in 1..(i - 1) : \A k \in j..(i - 1) : score(bs[k]) < curScore}
    IN IF up # {} THEN MoveTo(bs, i, CHOOSE j \in up : \A k \in up : j <= k)
       ELSE bs

\* adjustBackendList(be, removeEmpty) for the element at position i.
adjustBackendList(bs, i, removeEmpty) ==
  IF removeEmpty /\ removeBackendIfEmpty(bs, i) # bs THEN removeBackendIfEmpty(bs, i)
  ELSE
    LET curScore == score(bs[i])
        \* the scan towards the head stops at the first element with score >= curScore
        up == {j \in 1..(i - 1) : \A k \in j..(i - 1) : score(bs[k]) < curScore}
        \* the scan towards the tail stops at the first element with score <= curScore
        down == {j \in (i + 1)..Len(bs) : \A k \in (i + 1)..j : score(bs[k]) > curScore}
    IN IF up # {} THEN MoveTo(bs, i, CHOOSE j \in up : \A k \in up : j <= k)
       ELSE IF down # {} THEN MoveTo(bs, i, CHOOSE j \in down : \A k \in down : j >= k)
       ELSE bs

\* adjustBackendList for the element with this address; an element that is no
\* longer in the list has no neighbours and nothing moves.
adjustByAddr(bs, addr, removeEmpty) ==
  LET i == lookupBackend(bs, addr, TRUE)
  IN IF i = 0 THEN bs ELSE adjustBackendList(bs, i, removeEmpty)

\* backend.connScore += d for the element with this address.
addScore(bs, addr, d) ==
  [i \in 1..Len(bs) |->
     IF bs[i].addr = addr THEN [bs[i] EXCEPT !.connScore = @ + d] ELSE bs[i]]

\* ensureBackend: the list after making sure addr has an element.
ensureBackend(bs, addr, forward) ==
  IF lookupBackend(bs, addr, forward) # 0 THEN bs
  ELSE adjustBackendList(
         <<NewBackend(addr, Health(StatusCannotConnect, "", "nil"))>> \o bs, 1, FALSE)

\* addConn: append to the element's connList and re-sort it.
addConn(bs, addr, c) ==
  LET bs1 == [i \in 1..Len(bs) |->
                IF bs[i].addr = addr
                THEN [bs[i] EXCEPT !.connList = Append(@, c)] ELSE bs[i]]
  IN adjustByAddr(bs1, addr, FALSE)

\* removeConn: detach from the element's connList, re-sort, remove if empty.
removeConn(bs, addr, c) ==
  LET bs1 == [i \in 1..Len(bs) |->
                IF bs[i].addr = addr
                THEN [bs[i] EXCEPT !.connList = SelectSeq(@, LAMBDA x : x # c)]
                ELSE bs[i]]
  IN adjustByAddr(bs1, addr, TRUE)

\* A connWrapper keeps a pointer to its redirect target.  When that wrapper leaves
\* the list the pointer no longer names a list element: stale.
markStale(cs, bs) ==
  [c \in ConnIds |->
     IF cs[c].redirectingBackend # NoAddr /\ cs[c].redirectingBackend \notin AddrsOf(bs)
     THEN [cs[c] EXCEPT !.stale = TRUE] ELSE cs[c]]

\* What the last operation returned: Next's result and whether it asked the observer
\* to refresh, and the connections rebalance called Redirect for.
Ret(op, ret, err) ==
  [op |-> op, ret |-> ret, err |-> err, refresh |-> FALSE, emitted |-> {}]
Quiet == Ret("-", NoAddr, NoRet)

\* ------------------------------------------------------------------ Init
Init ==
  /\ backends = <<>>
  /\ conns = [c \in ConnIds |-> FreeConn]
  /\ pending = [a \in Addrs |-> 0]
  /\ observeError = FALSE
  /\ serverVersion = ""
  /\ last = Quiet
  /\ mark = NoMark
  /\ life = NoLife
  /\ probe = NoProbe

\* ------------------------------------------------------------ selection
PendingTotal == SumSeq([a \in Addrs |-> pending[a]])

\* How many Next calls may wait for their Finish: more during a burst of Next calls.
PendingCap ==
  IF mark.kind = "finish" THEN MaxBurst
  ELSE IF mark.kind = "reserve" THEN MaxSpread
  ELSE MaxPending

\* Mutant of routeCandidate: the scan runs from the head.
routeCandidate_HeadFirst(bs, excluded) ==
  LET ok == {i \in 1..Len(bs) :
               /\ bs[i].health.status \notin {StatusCannotConnect, StatusSchemaOutdated}
               /\ bs[i].addr \notin excluded}
  IN IF ok = {} THEN 0 ELSE CHOOSE i \in ok : \A j \in ok : i <= j

\* routeOnce's scan: the position nearest the tail whose backend is neither
\* CannotConnect nor SchemaOutdated nor excluded; 0 when there is none.
routeCandidate(bs, excluded) ==
  LET ok == {i \in 1..Len(bs) :
               /\ bs[i].health.status \notin {StatusCannotConnect, StatusSchemaOutdated}
               /\ bs[i].addr \notin excluded}
  IN IF ok = {} THEN 0 ELSE CHOOSE i \in ok : \A j \in ok : i >= j

\* Mutant of observeFailed: the latched error is ignored.
observeFailed_Never(err) == FALSE

\* routeOnce's first test: router.observeError != nil.
observeFailed(err) == err

\* Mutant of refreshCalled: no refresh is requested.
refreshCalled_Never(attached) == FALSE

\* `if router.observer != nil { router.observer.Refresh() }`: whether routeOnce
\* requests a refresh on its way to ErrNoBackend.
refreshCalled(attached) == attached

\* BackendSelector.Next -> routeOnce(excluded)
routeOnce(excluded) ==
  IF observeFailed(observeError) THEN
    /\ last' = Ret("Next", NoAddr, ErrObserve)
    /\ UNCHANGED <<backends, conns, pending, observeError, serverVersion, mark, life, probe>>
  ELSE
    LET i == routeCandidate(backends, excluded)
    IN IF i # 0 THEN
         LET addr == backends[i].addr
         IN /\ PendingTotal < PendingCap
            /\ backends' = adjustBackendList(addScore(backends, addr, 1), i, FALSE)
            /\ pending' = [pending EXCEPT ![addr] = @ + 1]
            /\ last' = Ret("Next", addr, NoRet)
            /\ UNCHANGED <<conns, observeError, serverVersion, mark, life, probe>>
       ELSE
         /\ last' = [Ret("Next", NoAddr, ErrNoBackend) EXCEPT !.refresh = refreshCalled(TRUE)]
         /\ UNCHANGED <<backends, conns, pending, observeError, serverVersion, mark, life, probe>>

FreeIds == {c \in ConnIds : ~conns[c].live}

\* Mutant of createConn: a failed Finish keeps the reservation.
createConn_KeepReservation(bs, addr, c, succeed) ==
  LET bs0 == ensureBackend(bs, addr, TRUE)
  IN IF succeed THEN addConn(bs0, addr, c)
     ELSE adjustByAddr(bs0, addr, TRUE)

\* What onCreateConn does to the list: attach the connection, or give the
\* reservation back.
createConn(bs, addr, c, succeed) ==
  LET bs0 == ensureBackend(bs, addr, TRUE)
  IN IF succeed THEN addConn(bs0, addr, c)
     ELSE adjustByAddr(addScore(bs0, addr, -1), addr, TRUE)

\* BackendSelector.Finish -> onCreateConn(backendInst, conn, succeed)
onCreateConn(addr, succeed) ==
  /\ pending[addr] > 0
  /\ pending' = [pending EXCEPT ![addr] = @ - 1]
  /\ IF succeed THEN
       /\ FreeIds # {}
       /\ LET c == CHOOSE x \in FreeIds : \A y \in FreeIds : x <= y
              bs1 == createConn(backends, addr, c, TRUE)
          IN /\ backends' = bs1
             /\ conns' = markStale(
                  [conns EXCEPT ![c] = [FreeConn EXCEPT !.live = TRUE, !.at = addr]], bs1)
     ELSE
       LET bs1 == createConn(backends, addr, NoConn, FALSE)
       IN /\ backends' = bs1
          /\ conns' = markStale(conns, bs1)
  /\ last' = Quiet
  /\ UNCHANGED <<observeError, serverVersion, mark, life, probe>>

\* ------------------------------------------------------------ callbacks
InFlight(c) == conns[c].live /\ conns[c].phase = phaseRedirectNotify

\* Mutant of redirectFinished: a successful redirect attaches the connection to the
\* target without detaching it from the source.
redirectFinished_NoDetach(bs, from, to, c, succeed) ==
  LET bs0 == ensureBackend(ensureBackend(bs, from, TRUE), to, FALSE)
  IN IF succeed
     THEN addConn(bs0, to, c)
     ELSE adjustByAddr(
            addScore(adjustByAddr(addScore(bs0, from, 1), from, FALSE), to, -1),
            to, TRUE)

\* Mutant of redirectFinished: a failed redirect gives the target's reservation
\* back but does not restore the source's connScore.
redirectFinished_NoRestore(bs, from, to, c, succeed) ==
  LET bs0 == ensureBackend(ensureBackend(bs, from, TRUE), to, FALSE)
  IN IF succeed
     THEN addConn(removeConn(bs0, from, c), to, c)
     ELSE adjustByAddr(addScore(adjustByAddr(bs0, from, FALSE), to, -1), to, TRUE)

\* What onRedirectFinished does to the list: move the connection, or undo the
\* score change made when the redirect was emitted.
redirectFinished(bs, from, to, c, succeed) ==
  LET bs0 == ensureBackend(ensureBackend(bs, from, TRUE), to, FALSE)
  IN IF succeed
     THEN addConn(removeConn(bs0, from, c), to, c)
     ELSE adjustByAddr(
            addScore(adjustByAddr(addScore(bs0, from, 1), from, FALSE), to, -1),
            to, TRUE)

\* OnRedirectSucceed / OnRedirectFail -> onRedirectFinished(from, to, conn, succeed)
onRedirectFinished(c, succeed) ==
  /\ InFlight(c)
  /\ LET from == conns[c].at
         to == conns[c].redirectingBackend
         bs1 == redirectFinished(backends, from, to, c, succeed)
         cw == [conns[c] EXCEPT
                  !.phase = IF succeed THEN phaseRedirectEnd ELSE phaseRedirectFail,
                  !.at = IF succeed THEN to ELSE from,
                  !.redirectingBackend = NoAddr,
                  !.stale = FALSE]
     IN /\ backends' = bs1
        /\ conns' = markStale([conns EXCEPT ![c] = cw], bs1)
  /\ last' = Quiet
  /\ UNCHANGED <<pending, observeError, serverVersion, mark, life, probe>>

\* Mutant of connClosed: the source backend's connScore is decremented even when
\* the connection is redirecting.
connClosed_DoubleDecrement(bs, addr, c, rb, stale) ==
  LET bs0 == ensureBackend(bs, addr, TRUE)
      bs1 == IF rb # NoAddr
             THEN adjustByAddr(IF stale THEN bs0 ELSE addScore(bs0, rb, -1), rb, TRUE)
             ELSE bs0
  IN removeConn(addScore(bs1, addr, -1), addr, c)

\* Mutant of connClosed: the reservation on the redirect target is not released.
connClosed_NoRelease(bs, addr, c, rb, stale) ==
  LET bs0 == ensureBackend(bs, addr, TRUE)
      bs1 == IF rb # NoAddr THEN adjustByAddr(bs0, rb, TRUE)
             ELSE addScore(bs0, addr, -1)
  IN removeConn(bs1, addr, c)

\* What OnConnClosed does to the list.  rb is the connection's redirectingBackend
\* (NoAddr for nil); its connScore is decremented through the pointer, which reaches
\* the list only if the wrapper is still in it, and the element found under its
\* address is adjusted.
connClosed(bs, addr, c, rb, stale) ==
  LET bs0 == ensureBackend(bs, addr, TRUE)
      bs1 == IF rb # NoAddr
             THEN adjustByAddr(IF stale THEN bs0 ELSE addScore(bs0, rb, -1), rb, TRUE)
             ELSE addScore(bs0, addr, -1)
  IN removeConn(bs1, addr, c)

\* OnConnClosed(addr, conn)
OnConnClosed(c) ==
  /\ conns[c].live
  /\ LET addr == conns[c].at
         rb == conns[c].redirectingBackend
         bs2 == connClosed(backends, addr, c, rb, conns[c].stale)
     IN /\ backends' = bs2
        /\ conns' = markStale([conns EXCEPT ![c] = FreeConn], bs2)
  /\ last' = Quiet
  /\ UNCHANGED <<pending, observeError, serverVersion, mark, life, probe>>

\* ------------------------------------------------------------ health
Absent == [status |-> "Absent", ver |-> "", err |-> "nil"]
Removed == Health(StatusCannotConnect, "", "removed")

HealthValues ==
  { Health(StatusHealthy, "v1", "nil"),
    Health(StatusCannotConnect, "", "nil"), Health(StatusSchemaOutdated, "v1", "nil") }

Snapshots == [Addrs -> HealthValues \cup {Absent}]

\* The orders in which `range backends` may visit the map.
Orders == {o \in [1..NumAddrs -> Addrs] : \A a \in Addrs : \E i \in 1..NumAddrs : o[i] = a}

\* backendWrapper.Equals(health): status, version and error identity; the error of
\* a removed backend is made anew on every call and equals no stored one.
Equals(cur, h) == h.err # "removed" /\ cur = h

\* One iteration of the loop over the snapshot: st = [bs, ver].
applyHealth(st, addr, h) ==
  LET bs == st.bs
      i == lookupBackend(bs, addr, TRUE)
  IN IF i = 0 /\ h.status # StatusCannotConnect THEN
       [bs |-> adjustBackendList(Append(bs, NewBackend(addr, h)), Len(bs) + 1, FALSE),
        ver |-> h.ver]
     ELSE IF i # 0 /\ ~Equals(bs[i].health, h) THEN
       [bs |-> adjustBackendList([bs EXCEPT ![i].health = h], i, TRUE),
        ver |-> IF h.status # StatusCannotConnect THEN h.ver ELSE st.ver]
     ELSE st

RECURSIVE applyAll(_, _, _)
applyAll(st, m, order) ==
  IF order = <<>> THEN st
  ELSE LET a == Head(order)
       IN applyAll(IF m[a] = Absent THEN st ELSE applyHealth(st, a, m[a]), m, Tail(order))

\* Mutant of healthLoop: the registered addresses missing from the snapshot are
\* not added as removed.
healthLoop_IgnoreMissing(bs, snap, order) ==
  applyAll([bs |-> bs, ver |-> ""], snap, order)

\* The loop of updateBackendHealth over the snapshot, visited in this order, after
\* the registered addresses missing from it were added as removed.
healthLoop(bs, snap, order) ==
  LET m == [a \in Addrs |->
              IF snap[a] = Absent /\ a \in AddrsOf(bs) THEN Removed ELSE snap[a]]
  IN applyAll([bs |-> bs, ver |-> ""], m, order)

\* Mutant of updateBackendHealthError: the backends of the failed snapshot, none,
\* are applied all the same, and every registered backend counts as removed.
updateBackendHealthError_Applied ==
  /\ observeError' = TRUE
  /\ backends' = healthLoop(backends, [a \in Addrs |-> Absent], [i \in 1..NumAddrs |-> i]).bs
  /\ conns' = markStale(conns, backends')
  /\ last' = Quiet
  /\ UNCHANGED <<pending, serverVersion, mark, life, probe>>

\* updateBackendHealth(healthResults) when healthResults.Error() # nil.
updateBackendHealthError ==
  /\ observeError' = TRUE
  /\ last' = Quiet
  /\ UNCHANGED <<backends, conns, pending, serverVersion, mark, life, probe>>

\* updateBackendHealth(healthResults) for an error-free snapshot.
updateBackendHealth(snap) ==
  \E st \in {healthLoop(backends, snap, order) : order \in Orders} :
    /\ observeError' = FALSE
    /\ backends' = st.bs
    /\ conns' = markStale(conns, st.bs)
    /\ serverVersion' = IF st.ver # "" THEN st.ver ELSE serverVersion
    /\ last' = Quiet
    /\ UNCHANGED <<pending, mark, life, probe>>

\* ------------------------------------------------------------ rebalance
\* Mutant of RatioLess: the loop stops below a ratio of 2.
RatioLess_Loose(busy, den) ==
  IF den > 0 THEN busy < 2 * den
  ELSE IF den < 0 THEN busy > 2 * den
  ELSE busy < 0

\* float64(busy) / float64(idle + 1) < rebalanceMaxScoreRatio, for den = idle + 1.
\* A zero denominator gives +Inf, NaN or -Inf, of which only -Inf is below the ratio.
RatioLess(busy, den) ==
  IF den > 0 THEN RatioDen * busy < RatioNum * den
  ELSE IF den < 0 THEN RatioDen * busy > RatioNum * den
  ELSE busy < 0

\* Mutant of Redirectable: a connection whose redirect is in flight may be picked.
Redirectable_IgnoreNotify(cw) ==
  ~(cw.phase = phaseRedirectFail /\ cw.sinceRedirect < redirectFailMinInterval)

\* Mutant of Redirectable: a failed redirect is retried at once.
Redirectable_NoCooldown(cw) == cw.phase # phaseRedirectNotify

\* Whether rebalance may pick this connection: not while its redirect is in flight,
\* and not while lastRedirect + redirectFailMinInterval is after curTime.
Redirectable(cw) ==
  /\ cw.phase # phaseRedirectNotify
  /\ ~(cw.phase = phaseRedirectFail /\ cw.sinceRedirect < redirectFailMinInterval)

\* The loop of rebalance: st = [bs, cs, emitted], n iterations left.
RECURSIVE rebalanceLoop(_, _)
rebalanceLoop(st, n) ==
  LET bs == st.bs
      busy == {i \in 1..Len(bs) : Len(bs[i].connList) > 0}
  IN IF n = 0 \/ busy = {} THEN st
     ELSE
       LET bi == CHOOSE i \in busy : \A j \in busy : i <= j
           busiest == bs[bi]
           idlest == bs[Len(bs)]
           cl == busiest.connList
           elig == {k \in 1..Len(cl) : Redirectable(st.cs[cl[k]])}
       IN IF RatioLess(score(busiest), score(idlest) + 1) \/ elig = {} THEN st
          ELSE
            LET c == cl[CHOOSE k \in elig : \A j \in elig : k <= j]
                bs1 == adjustBackendList(addScore(bs, busiest.addr, -1), bi, TRUE)
                bs2 == adjustByAddr(addScore(bs1, idlest.addr, 1), idlest.addr, FALSE)
                cw == [st.cs[c] EXCEPT !.phase = phaseRedirectNotify,
                                       !.sinceRedirect = 0,
                                       !.redirectingBackend = idlest.addr,
                                       !.stale = FALSE]
            IN rebalanceLoop([bs |-> bs2, cs |-> [st.cs EXCEPT ![c] = cw],
                              emitted |-> st.emitted \cup {c}], n - 1)

\* rebalance(maxNum)
rebalance(maxNum) ==
  LET st == rebalanceLoop([bs |-> backends, cs |-> conns, emitted |-> {}], maxNum)
  IN /\ backends' = st.bs
     /\ conns' = markStale(st.cs, st.bs)
     /\ last' = [Ret("rebalance", NoAddr, NoRet) EXCEPT !.emitted = st.emitted]
     /\ UNCHANGED <<pending, observeError, serverVersion, mark, life, probe>>

\* monotime.Now() advances by one unit.
Tick ==
  /\ \E c \in ConnIds : conns[c].sinceRedirect < redirectFailMinInterval
  /\ conns' = [c \in ConnIds |->
                [conns[c] EXCEPT !.sinceRedirect = Elapse(@)]]
  /\ last' = Quiet
  /\ UNCHANGED <<backends, pending, observeError, serverVersion, mark, life, probe>>

Next ==
  \/ \E ex \in SUBSET Addrs : routeOnce(ex)
  \/ \E a \in Addrs, ok \in BOOLEAN : onCreateConn(a, ok)
  \/ \E c \in ConnIds, ok \in BOOLEAN : onRedirectFinished(c, ok)
  \/ \E c \in ConnIds : OnConnClosed(c)
  \/ updateBackendHealthError
  \/ \E snap \in Snapshots : updateBackendHealth(snap)
  \/ \E n \in {1, rebalanceConnsPerLoop} : rebalance(n)
  \/ Tick

Spec == Init /\ [][Next]_vars

\* ------------------------------------------------------------ round trips
\* The same router, driven the way the round trips of the tests drive it: any
\* operations first; then either a burst of Next calls that are all given back
\* by Finish(false), or one rebalance followed by the callbacks for the redirects
\* it emitted.  mark keeps the list and the connections as they were when the
\* round trip began.
Snapshot(kind) == [kind |-> kind, bs |-> backends, cs |-> conns]

\* The connections rebalance has picked since the round trip began.
Emitted == {c \in ConnIds : mark.kind = "redirect" /\ conns[c] # mark.cs[c]}

Setup == mark.kind = "none" /\ Next

BeginBurst ==
  /\ mark.kind = "none"
  /\ PendingTotal = 0
  /\ ~observeError
  /\ routeCandidate(backends, {}) # 0
  /\ mark' = Snapshot("finish")
  /\ UNCHANGED <<backends, conns, pending, observeError, serverVersion, last, life, probe>>

BurstNext(excluded) == mark.kind = "finish" /\ routeOnce(excluded)

BurstFinish(addr) == mark.kind = "finish" /\ onCreateConn(addr, FALSE)

BeginRedirect ==
  /\ mark.kind = "none"
  /\ rebalanceLoop([bs |-> backends, cs |-> conns, emitted |-> {}], 1).emitted # {}
  /\ mark' = Snapshot("redirect")
  /\ UNCHANGED <<backends, conns, pending, observeError, serverVersion, last, life, probe>>

TripRebalance(maxNum) ==
  mark.kind = "redirect" /\ Emitted = {} /\ rebalance(maxNum)

TripFinished(c, succeed) ==
  mark.kind = "redirect" /\ c \in Emitted /\ onRedirectFinished(c, succeed)

\* A third round trip: one rebalance, then the connections it picked are closed
\* while their redirects are in flight.
BeginClose ==
  /\ mark.kind = "none"
  /\ rebalanceLoop([bs |-> backends, cs |-> conns, emitted |-> {}], 1).emitted # {}
  /\ mark' = Snapshot("close")
  /\ UNCHANGED <<backends, conns, pending, observeError, serverVersion, last, life, probe>>

CloseRebalance(maxNum) ==
  mark.kind = "close" /\ conns = mark.cs /\ rebalance(maxNum)

CloseRedirecting(c) ==
  mark.kind = "close" /\ InFlight(c) /\ conns[c] # mark.cs[c] /\ OnConnClosed(c)

\* A fourth round trip: only Healthy backends, all of score 0; then Next calls
\* without exclusions, either each followed by its Finish(true) ("route") or all
\* left waiting ("reserve").
BeginSpread(kind) ==
  /\ mark.kind = "none"
  /\ ~observeError
  /\ Len(backends) > 0
  /\ \A i \in 1..Len(backends) :
       backends[i].health.status = StatusHealthy /\ score(backends[i]) = 0
  /\ FreeIds = ConnIds
  /\ mark' = Snapshot(kind)
  /\ UNCHANGED <<backends, conns, pending, observeError, serverVersion, last, life, probe>>

SpreadNext ==
  /\ mark.kind \in {"route", "reserve"}
  /\ mark.kind = "route" => PendingTotal = 0 /\ FreeIds # {}
  /\ routeOnce({})

SpreadFinish(addr) == mark.kind = "route" /\ onCreateConn(addr, TRUE)

NextRoundTrip ==
  \/ Setup
  \/ \E kind \in {"route", "reserve"} : BeginSpread(kind)
  \/ SpreadNext
  \/ \E a \in Addrs : SpreadFinish(a)
  \/ BeginClose
  \/ \E n \in {1, rebalanceConnsPerLoop} : CloseRebalance(n)
  \/ \E c \in ConnIds : CloseRedirecting(c)
  \/ BeginBurst
  \/ \E ex \in SUBSET Addrs : BurstNext(ex)
  \/ \E a \in Addrs : BurstFinish(a)
  \/ BeginRedirect
  \/ \E n \in {1, rebalanceConnsPerLoop} : TripRebalance(n)
  \/ \E c \in ConnIds, ok \in BOOLEAN : TripFinished(c, ok)

SpecRoundTrip == Init /\ [][NextRoundTrip]_vars

\* ------------------------------------------------------------ unattached close
\* OnConnClosed(addr, conn) for a connection that was never attached by
\* Finish(conn, true): its slot _routerKey holds nothing.  ensureBackend has already
\* run when getConnWrapper converts the empty slot, which panics; the deferred
\* Unlock releases the mutex and the list stays as ensureBackend left it.
OnConnClosedUnattached(addr) ==
  /\ backends' = ensureBackend(backends, addr, TRUE)
  /\ last' = Ret("OnConnClosed", NoAddr, ErrPanic)
  /\ UNCHANGED <<conns, pending, observeError, serverVersion, mark, life, probe>>

\* The router as long as nothing has panicked.
Running == last.err # ErrPanic /\ Next

NextUnattached ==
  \/ Running
  \/ \E a \in Addrs : last.err # ErrPanic /\ OnConnClosedUnattached(a)

SpecUnattached == Init /\ [][NextUnattached]_vars

\* ------------------------------------------------------------ life cycle
\* Init(ctx, ob), the control loop it starts and Close.  The callbacks arrive from
\* other goroutines at any time; snapshots and ticks arrive through the loop only.
\* Close calls come one after the other.

\* Mutant of waited: Close returns without waiting for the control loop.
waited_NoWait(loop) == TRUE

\* router.wg.Wait() returns: no goroutine started by wg.Run is still running.
waited(loop) == loop # "running"

\* Init: cancelFunc is set and wg.Run starts rebalanceLoop(childCtx).
RouterInit ==
  /\ life = NoLife
  /\ life' = [life EXCEPT !.cancelFunc = TRUE, !.loop = "running"]
  /\ last' = Ret("Init", NoAddr, NoRet)
  /\ UNCHANGED <<backends, conns, pending, observeError, serverVersion, mark, probe>>

\* The snapshots the observer sends in this scenario.
LoopSnapshots == [Addrs -> {Health(StatusHealthy, "v1", "nil"), Absent}]

\* rebalanceLoop, case healthResults := <-router.healthCh
LoopHealth ==
  /\ life.loop = "running"
  /\ \/ updateBackendHealthError
     \/ \E snap \in LoopSnapshots : updateBackendHealth(snap)

\* rebalanceLoop, case <-ticker.C
LoopTick ==
  /\ life.loop = "running"
  /\ rebalance(rebalanceConnsPerLoop)

\* rebalanceLoop, case <-ctx.Done()
LoopExit ==
  /\ life.loop = "running"
  /\ life.done
  /\ life' = [life EXCEPT !.loop = "exited"]
  /\ last' = Quiet
  /\ UNCHANGED <<backends, conns, pending, observeError, serverVersion, mark, probe>>

\* Close up to router.wg.Wait(): cancelFunc is called and cleared if it is set.
CloseCall ==
  /\ life.close = "idle"
  /\ life.closed < MaxCloses
  /\ life' = [life EXCEPT !.close = "waiting",
                          !.done = @ \/ life.cancelFunc,
                          !.cancelFunc = FALSE]
  /\ last' = Quiet
  /\ UNCHANGED <<backends, conns, pending, observeError, serverVersion, mark, probe>>

\* router.wg.Wait() returns and so does Close.
CloseReturn ==
  /\ life.close = "waiting"
  /\ waited(life.loop)
  /\ life' = [life EXCEPT !.close = "idle", !.closed = @ + 1]
  /\ last' = Ret("Close", NoAddr, NoRet)
  /\ UNCHANGED <<backends, conns, pending, observeError, serverVersion, mark, probe>>

Callback ==
  \/ routeOnce({})
  \/ \E a \in Addrs : onCreateConn(a, TRUE)
  \/ \E c \in ConnIds, ok \in BOOLEAN : onRedirectFinished(c, ok)
  \/ \E c \in ConnIds : OnConnClosed(c)

NextLife ==
  \/ RouterInit
  \/ LoopHealth
  \/ LoopTick
  \/ LoopExit
  \/ CloseCall
  \/ CloseReturn
  \/ Callback

\* The goroutine of the loop and the goroutine in Close are scheduled; select
\* takes a ready case at random, so the closed ctx.Done() is taken in the end.
SpecLife == Init /\ [][NextLife]_vars /\ WF_vars(LoopExit) /\ WF_vars(CloseReturn)

\* ------------------------------------------------------------ closed channel
\* The control loop when the observer closes the subscription before the router
\* is closed.  A receive from a closed channel returns the zero HealthResult at
\* once, and rebalanceLoop does not look at the second result of the receive.

\* The observer's Close: the channel handed out by Subscribe is closed.
ObserverClose ==
  /\ life.loop = "running"
  /\ ~life.chClosed
  /\ life' = [life EXCEPT !.chClosed = TRUE]
  /\ UNCHANGED <<backends, conns, pending, observeError, serverVersion, last, mark, probe>>

\* rebalanceLoop, case healthResults := <-router.healthCh, with the channel
\* closed: updateBackendHealth runs on the zero HealthResult, which has no error
\* and no backends.  Backends() either hands out a map that can be written, and
\* every registered backend is added to it as removed, or the nil map, and the
\* first such write panics.
ClosedReceive ==
  /\ life.loop = "running"
  /\ life.chClosed
  /\ \/ updateBackendHealth([a \in Addrs |-> Absent])
     \/ /\ backends # <<>>
        /\ observeError' = FALSE
        /\ last' = Ret("updateBackendHealth", NoAddr, ErrPanic)
        /\ UNCHANGED <<backends, conns, pending, serverVersion, mark, life, probe>>

\* The snapshots the observer sends while the channel is open.
OpenReceive == ~life.chClosed /\ LoopHealth

\* An unrecovered panic in the loop's goroutine ends the process.
Alive == last.err # ErrPanic

NextChannel ==
  \/ Alive /\ RouterInit
  \/ Alive /\ OpenReceive
  \/ Alive /\ ObserverClose
  \/ Alive /\ ClosedReceive
  \/ Alive /\ LoopTick
  \/ Alive /\ LoopExit
  \/ Alive /\ CloseCall
  \/ Alive /\ CloseReturn
  \/ Alive /\ Callback

SpecChannel == Init /\ [][NextChannel]_vars

\* ------------------------------------------------------------ the lock
\* The same router with one round of rebalance's loop taken in two steps, up to
\* conn.Redirect(idlestBackend) and from there on, and with RedirectConnections.
\* Every other operation starts by taking the router's lock.

\* Mutant of LockFree: the operations do not wait for the lock.
LockFree_Always == TRUE

\* router.Lock() returns.
LockFree == ~life.locked

\* One round of rebalance's loop up to and including conn.Redirect(idlestBackend).
RedirectStart ==
  /\ LockFree
  /\ LET st == rebalanceLoop([bs |-> backends, cs |-> conns, emitted |-> {}], 1)
     IN /\ st.emitted # {}
        /\ \E c \in st.emitted :
             /\ backends' = st.bs
             /\ conns' = [st.cs EXCEPT ![c].redirectingBackend = conns[c].redirectingBackend]
             /\ life' = [life EXCEPT !.locked = TRUE, !.conn = c,
                                     !.to = st.cs[c].redirectingBackend]
        /\ last' = [Ret("rebalance", NoAddr, NoRet) EXCEPT !.emitted = st.emitted]
  /\ UNCHANGED <<pending, observeError, serverVersion, mark, probe>>

\* conn.redirectingBackend = idlestBackend, and the lock is given back.
RedirectAssign ==
  /\ life.locked
  /\ conns' = [conns EXCEPT ![life.conn].redirectingBackend = life.to]
  /\ life' = [life EXCEPT !.locked = FALSE, !.conn = NoConn, !.to = NoAddr]
  /\ UNCHANGED <<backends, pending, observeError, serverVersion, last, mark, probe>>

\* RedirectConnections(): every connection that is not redirecting is told to
\* redirect to the backend it is attached to; no connScore changes.
RedirectConnections ==
  /\ \E c \in ConnIds : conns[c].live /\ conns[c].phase # phaseRedirectNotify
  /\ conns' = [c \in ConnIds |->
                 IF conns[c].live /\ conns[c].phase # phaseRedirectNotify
                 THEN [conns[c] EXCEPT !.phase = phaseRedirectNotify,
                                       !.redirectingBackend = conns[c].at]
                 ELSE conns[c]]
  /\ last' = Ret("RedirectConnections", NoAddr, NoRet)
  /\ UNCHANGED <<backends, pending, observeError, serverVersion, mark, life, probe>>

Locking ==
  /\ LockFree
  /\ \/ routeOnce({})
     \/ \E a \in Addrs, ok \in BOOLEAN : onCreateConn(a, ok)
     \/ \E c \in ConnIds, ok \in BOOLEAN : onRedirectFinished(c, ok)
     \/ \E c \in ConnIds : OnConnClosed(c)
     \/ \E snap \in LoopSnapshots : updateBackendHealth(snap)
     \/ RedirectConnections
     \/ Tick

NextLock ==
  \/ Locking
  \/ RedirectStart
  \/ RedirectAssign

SpecLock == Init /\ [][NextLock]_vars

\* ------------------------------------------------------------ health check
\* Mutant of Check: the HTTP status probe is skipped.
Check_SkipStatus(srv) ==
  IF srv.ctxDone THEN Health(StatusCannotConnect, "", "cancelled")
  ELSE IF ~srv.sql THEN Health(StatusCannotConnect, "", "dial")
  ELSE IF ~srv.greeting THEN Health(StatusCannotConnect, "", "greeting")
  ELSE IF srv.schema = "stale" THEN Health(StatusSchemaOutdated, srv.version, "schema")
  ELSE Health(StatusHealthy, srv.version, "nil")

\* Check(ctx, addr, info): the SQL dial, the read of the greeting, the status
\* probe and the optional schema probe, in this order; the first failure wins.
Check(srv) ==
  IF srv.ctxDone THEN Health(StatusCannotConnect, "", "cancelled")
  ELSE IF ~srv.sql THEN Health(StatusCannotConnect, "", "dial")
  ELSE IF ~srv.greeting THEN Health(StatusCannotConnect, "", "greeting")
  ELSE IF ~srv.http200 \/ srv.httpSlow THEN Health(StatusCannotConnect, srv.version, "http")
  ELSE IF srv.schema = "stale" THEN Health(StatusSchemaOutdated, srv.version, "schema")
  ELSE Health(StatusHealthy, srv.version, "nil")

\* What the tests and the deployment change about a backend server between two
\* checks: the SQL listener, the greeting, the status answer and its delay, the
\* version served, the schema probe, and the context of the next Check.
SetServer ==
  /\ \E f \in {"sql", "greeting", "http200", "httpSlow", "ctxDone"} :
       probe' = [probe EXCEPT ![f] = ~@, !.checked = FALSE]
  /\ UNCHANGED <<backends, conns, pending, observeError, serverVersion, last, mark, life>>

SetVersion ==
  /\ \E v \in {"1.0", "2.0"} : probe' = [probe EXCEPT !.version = v, !.checked = FALSE]
  /\ UNCHANGED <<backends, conns, pending, observeError, serverVersion, last, mark, life>>

SetSchema ==
  /\ \E v \in {"off", "fresh", "stale"} : probe' = [probe EXCEPT !.schema = v, !.checked = FALSE]
  /\ UNCHANGED <<backends, conns, pending, observeError, serverVersion, last, mark, life>>

HealthCheck ==
  /\ probe' = [probe EXCEPT !.checked = TRUE, !.health = Check(probe)]
  /\ UNCHANGED <<backends, conns, pending, observeError, serverVersion, last, mark, life>>

NextCheck ==
  \/ SetServer
  \/ SetVersion
  \/ SetSchema
  \/ HealthCheck

SpecCheck == Init /\ [][NextCheck]_vars

\* ------------------------------------------------------------ versions
\* The same router fed with snapshots whose backends report different versions,
\* or none: BackendHealth.ServerVersion is a string that the reporter may leave
\* empty, as addBackends of the tests does.
VersionValues ==
  { Health(StatusHealthy, "v1", "nil"), Health(StatusHealthy, "v2", "nil"),
    Health(StatusHealthy, "", "nil"), Health(StatusCannotConnect, "", "nil") }

VersionSnapshots == [Addrs -> VersionValues \cup {Absent}]

NextVersions ==
  \/ \E snap \in VersionSnapshots : updateBackendHealth(snap)
  \/ updateBackendHealthError
  \/ \E ex \in SUBSET Addrs : routeOnce(ex)
  \/ \E a \in Addrs, ok \in BOOLEAN : onCreateConn(a, ok)
  \/ \E c \in ConnIds : OnConnClosed(c)

SpecVersions == Init /\ [][NextVersions]_vars

\* ------------------------------------------------------------ checks
TypeOK ==
  /\ \A i \in 1..Len(backends) : backends[i].addr \in Addrs
  /\ \A i, j \in 1..Len(backends) : i # j => backends[i].addr # backends[j].addr

LiveConns == {c \in ConnIds : conns[c].live}
Redirecting == {c \in LiveConns : conns[c].phase = phaseRedirectNotify}

\* ConnCount(): the attached connections over all backends.
ConnCount(bs) == SumSeq([i \in 1..Len(bs) |-> Len(bs[i].connList)])
ScoreSum(bs) == SumSeq([i \in 1..Len(bs) |-> bs[i].connScore])

TotalScore(bs) == SumSeq([i \in 1..Len(bs) |-> score(bs[i])])

\* The connList of the backend with this address; empty when it is not in the list.
ConnListAt(bs, addr) ==
  IF addr \in AddrsOf(bs) THEN bs[lookupBackend(bs, addr, TRUE)].connList ELSE <<>>

\* The connScore of the backend with this address; 0 when it is not in the list.
ConnScoreAt(bs, addr) ==
  IF addr \in AddrsOf(bs) THEN bs[lookupBackend(bs, addr, TRUE)].connScore ELSE 0

\* How often connection c occurs in the connLists of the list.
Occurrences(bs, c) ==
  SumSeq([i \in 1..Len(bs) |->
            Cardinality({k \in 1..Len(bs[i].connList) : bs[i].connList[k] = c})])

\* C1: after every operation the backend list is ordered by score(), non-increasing
\* from head to tail.
C1_SortedByScore ==
  \A i \in 1..Len(backends) : \A j \in 1..Len(backends) :
    i < j => score(backends[i]) >= score(backends[j])

\* C1 witness: two backends of different score, ordered, with a redirect in flight.
C1_Witness ==
  /\ Len(backends) = 2
  /\ score(backends[1]) > score(backends[2])
  /\ score(backends[2]) > 0
  /\ Redirecting # {}

\* C2: after every operation the list holds no backend that is CannotConnect, has
\* an empty connList and has connScore <= 0.
C2_NoEmptyUnhealthy ==
  \A i \in 1..Len(backends) :
    ~(/\ backends[i].health.status = StatusCannotConnect
      /\ Len(backends[i].connList) = 0
      /\ backends[i].connScore <= 0)

\* C2 witness: a CannotConnect backend is in the list because a connection is still
\* attached, while its connScore is already 0 (its only connection is being
\* redirected away).
C2_Witness ==
  \E i \in 1..Len(backends) :
    /\ backends[i].health.status = StatusCannotConnect
    /\ backends[i].connScore = 0
    /\ Len(backends[i].connList) = 1

\* C3: every live connection is in exactly one connList (the one of the backend the
\* data plane has it on), no other connection is in any, and ConnCount() is the
\* number of live connections.
C3_ExactlyOneConnList ==
  /\ \A c \in ConnIds : Occurrences(backends, c) = IF conns[c].live THEN 1 ELSE 0
  /\ \A c \in LiveConns : \E i \in 1..Len(backends) :
       /\ backends[i].addr = conns[c].at
       /\ c \in Range(backends[i].connList)
  /\ ConnCount(backends) = Cardinality(LiveConns)

\* C3 witness: two live connections, one moved by OnRedirectSucceed, both attached
\* to the same backend.
C3_Witness ==
  /\ Cardinality(LiveConns) = 2
  /\ \E c \in LiveConns : conns[c].phase = phaseRedirectEnd
  /\ \E i \in 1..Len(backends) : Len(backends[i].connList) = 2

\* C4: after every operation every backend has connScore >= 0 and score() >= 0.
C4_ScoreNonNegative ==
  \A i \in 1..Len(backends) : backends[i].connScore >= 0 /\ score(backends[i]) >= 0

\* C4 witness: a backend whose connScore is back at 0 after a reservation was
\* released by Finish(false) while a connection is attached elsewhere.
C4_Witness ==
  /\ \E i \in 1..Len(backends) : backends[i].connScore = 0 /\ Len(backends[i].connList) > 0
  /\ \E i \in 1..Len(backends) : backends[i].connScore = 2

\* C5 as stated: with no redirect in flight, the sum of connScore, the sum of the
\* connList lengths and the number of live connections are equal.
C5_Original ==
  Redirecting = {} =>
    /\ ScoreSum(backends) = ConnCount(backends)
    /\ ConnCount(backends) = Cardinality(LiveConns)

\* C5 amended: with no redirect in flight and no Next reservation waiting for its
\* Finish, the three are equal; a waiting reservation adds one to the sum of connScore.
C5_SteadyStateSums ==
  Redirecting = {} =>
    /\ ScoreSum(backends) = ConnCount(backends) + PendingTotal
    /\ ConnCount(backends) = Cardinality(LiveConns)

\* C5 witness: steady state with two attached connections after a redirect round.
C5_Witness ==
  /\ Redirecting = {}
  /\ PendingTotal = 0
  /\ Cardinality(LiveConns) = 2
  /\ \E c \in LiveConns : conns[c].phase = phaseRedirectFail
\* C6: with no observe error latched, Next(excluded) returns the backend nearest
\* the tail that is Healthy and not excluded and adds 1 to exactly its connScore,
\* every other backend and every connList staying as it was; when no backend
\* qualifies it returns ErrNoBackend and leaves the list and the reservations alone.
C6_NextContract ==
  [][\A ex \in SUBSET Addrs :
       (~observeError /\ routeOnce(ex)) =>
         LET elig == {i \in 1..Len(backends) :
                        /\ backends[i].health.status = StatusHealthy
                        /\ backends[i].addr \notin ex}
         IN IF elig = {}
            THEN /\ last'.ret = NoAddr
                 /\ last'.err = ErrNoBackend
                 /\ backends' = backends
                 /\ pending' = pending
            ELSE LET i == CHOOSE x \in elig : \A y \in elig : x >= y
                 IN /\ last'.ret = backends[i].addr
                    /\ last'.err = NoRet
                    /\ Len(backends') = Len(backends)
                    /\ \A j \in 1..Len(backends) : \E k \in 1..Len(backends') :
                         backends'[k] = IF j = i
                                        THEN [backends[j] EXCEPT !.connScore = @ + 1]
                                        ELSE backends[j]]_vars

\* C6 witness: Next has just returned the tail backend although a busier Healthy
\* backend is nearer the head.
C6_Witness ==
  /\ Len(backends) = 2
  /\ last.op = "Next"
  /\ last.ret = backends[2].addr
  /\ backends[1].health.status = StatusHealthy
  /\ score(backends[1]) > score(backends[2])

\* C7: while an observe error is latched every Next returns it and changes neither
\* the list nor the reservations.  The latch is cleared by no Next, Finish,
\* connection callback, rebalance or failed health result: the step that clears it
\* returns nothing, and leaves the reservations and every connection as they were.
\* An error-free health result that holds a Healthy backend, applied after Next
\* returned the error, leaves that backend Healthy in the list, and with the latch
\* cleared and a Healthy backend in the list Next returns a backend.
C7_ObserveErrorLatched ==
  /\ []((observeError /\ last.err = ErrObserve) =>
          \A snap \in Snapshots : \A order \in Orders :
            LET bs == healthLoop(backends, snap, order).bs
            IN \A a \in Addrs : snap[a].status = StatusHealthy =>
                 \E i \in 1..Len(bs) :
                   bs[i].addr = a /\ bs[i].health.status = StatusHealthy)
  /\ [][/\ \A ex \in SUBSET Addrs :
             (observeError /\ routeOnce(ex)) =>
               /\ last'.ret = NoAddr
               /\ last'.err = ErrObserve
               /\ backends' = backends
               /\ pending' = pending
               /\ observeError'
        /\ (observeError /\ ~observeError') =>
             /\ last' = Quiet
             /\ pending' = pending
             /\ \A c \in ConnIds :
                  conns'[c] = [conns[c] EXCEPT !.stale = conns'[c].stale]
        /\ (~observeError /\ routeOnce({})
              /\ \E i \in 1..Len(backends) : backends[i].health.status = StatusHealthy) =>
             /\ last'.ret \in AddrsOf(backends)
             /\ last'.err = NoRet]_vars

\* C7 witness: Next has just returned the observe error although a Healthy backend
\* without any load is in the list.
C7_Witness ==
  /\ observeError
  /\ last.op = "Next"
  /\ last.err = ErrObserve
  /\ \E i \in 1..Len(backends) :
       backends[i].health.status = StatusHealthy /\ score(backends[i]) = 0
\* C8: during a burst of Next calls every backend's connScore is its value from
\* before the burst plus the calls waiting for their Finish on it, and once every
\* one of them was given back by Finish(false) each backend's connScore and score
\* are what they were before; no backend came or went and no connList changed.
C8_FinishFalseRoundTrip ==
  mark.kind = "finish" =>
    /\ AddrsOf(backends) = AddrsOf(mark.bs)
    /\ \A a \in AddrsOf(backends) :
         /\ ConnScoreAt(backends, a) = ConnScoreAt(mark.bs, a) + pending[a]
         /\ ConnListAt(backends, a) = ConnListAt(mark.bs, a)
    /\ PendingTotal = 0 =>
         \A i \in 1..Len(backends) : \A j \in 1..Len(mark.bs) :
           backends[i].addr = mark.bs[j].addr =>
             /\ backends[i].connScore = mark.bs[j].connScore
             /\ score(backends[i]) = score(mark.bs[j])

\* C8 witness: a burst is over, every reservation given back, and the list is in
\* another order than before it (the backends of equal score changed places).
C8_Witness ==
  /\ mark.kind = "finish"
  /\ PendingTotal = 0
  /\ backends # mark.bs
  /\ \E i \in 1..Len(backends) : score(backends[i]) > 0

\* C9: OnRedirectSucceed for a redirect that rebalance emitted takes c out of the
\* source's connList and puts it at the end of the target's, sets c's phase to
\* RedirectEnd and clears its redirectingBackend; throughout the round trip
\* ConnCount and the sum of all scores are what they were before the rebalance.
C9_RedirectSucceedRoundTrip ==
  /\ [](mark.kind = "redirect" =>
          /\ ConnCount(backends) = ConnCount(mark.bs)
          /\ TotalScore(backends) = TotalScore(mark.bs)
          /\ \A c \in Emitted : conns[c].phase = phaseRedirectEnd =>
               /\ conns[c].redirectingBackend = NoAddr
               /\ conns[c].at # mark.cs[c].at
               /\ c \notin Range(ConnListAt(backends, mark.cs[c].at))
               /\ c \in Range(ConnListAt(backends, conns[c].at)))
  /\ [][\A c \in ConnIds :
          (mark.kind = "redirect" /\ onRedirectFinished(c, TRUE)) =>
            LET A == conns[c].at
                B == conns[c].redirectingBackend
            IN /\ ConnListAt(backends', B) = Append(ConnListAt(backends, B), c)
               /\ ConnListAt(backends', A) =
                    SelectSeq(ConnListAt(backends, A), LAMBDA x : x # c)
               /\ c \in Range(ConnListAt(backends, A))
               /\ conns'[c].phase = phaseRedirectEnd
               /\ conns'[c].redirectingBackend = NoAddr]_vars

\* C9 witness: a redirected connection has arrived at the end of the connList of a
\* backend that already had a connection.
C9_Witness ==
  \E c \in Emitted :
    /\ conns[c].phase = phaseRedirectEnd
    /\ Len(ConnListAt(backends, conns[c].at)) = 2
    /\ ConnListAt(backends, conns[c].at)[2] = c

\* C10: OnRedirectFail for a redirect that rebalance emitted adds 1 to the source's
\* connScore and takes 1 from the target's, leaves c in the source's connList,
\* keeps the source in the list, sets c's phase to RedirectFail and clears its
\* redirectingBackend; once every redirect of the rebalance has failed, the
\* connScore and connList of every backend are what they were before the rebalance.
C10_RedirectFailRoundTrip ==
  /\ [](mark.kind = "redirect" =>
          /\ \A c \in Emitted : conns[c].phase = phaseRedirectFail =>
               /\ conns[c].redirectingBackend = NoAddr
               /\ conns[c].at = mark.cs[c].at
               /\ conns[c].at \in AddrsOf(backends)
               /\ c \in Range(ConnListAt(backends, conns[c].at))
          /\ (\A c \in Emitted : conns[c].phase = phaseRedirectFail) =>
               /\ AddrsOf(backends) = AddrsOf(mark.bs)
               /\ \A a \in AddrsOf(backends) :
                    /\ ConnScoreAt(backends, a) = ConnScoreAt(mark.bs, a)
                    /\ ConnListAt(backends, a) = ConnListAt(mark.bs, a))
  /\ [][\A c \in ConnIds :
          (mark.kind = "redirect" /\ onRedirectFinished(c, FALSE)) =>
            LET A == conns[c].at
                B == conns[c].redirectingBackend
            IN /\ A \in AddrsOf(backends') /\ B \in AddrsOf(backends')
               /\ ConnScoreAt(backends', A) = ConnScoreAt(backends, A) + 1
               /\ ConnScoreAt(backends', B) = ConnScoreAt(backends, B) - 1
               /\ ConnListAt(backends', A) = ConnListAt(backends, A)
               /\ ConnListAt(backends', B) = ConnListAt(backends, B)
               /\ c \in Range(ConnListAt(backends', A))
               /\ conns'[c].phase = phaseRedirectFail
               /\ conns'[c].redirectingBackend = NoAddr]_vars

\* C10 witness: every redirect of the rebalance has failed and the source of one of
\* them is a CannotConnect backend, still in the list.
C10_Witness ==
  /\ Emitted # {}
  /\ \A c \in Emitted : conns[c].phase = phaseRedirectFail
  /\ \E c \in Emitted : \E i \in 1..Len(backends) :
       /\ backends[i].addr = conns[c].at
       /\ backends[i].health.status = StatusCannotConnect
\* C11: OnConnClosed for a connection whose redirect from A to B is in flight takes
\* exactly 1 from B's connScore, leaves A's connScore alone, takes c out of A's
\* connList and leaves c in no connList.  In every state each backend's connScore
\* is the number of connections attached to it that are not being redirected, plus
\* the redirects in flight towards it, plus the Next calls waiting on it: a closed
\* connection contributes to none.  Rebalance picks only connections that are
\* still attached, so a close that took the lock first is never redirected.
C11_CloseWhileRedirecting ==
  /\ [](/\ \A a \in Addrs :
             ConnScoreAt(backends, a) =
               Cardinality({c \in LiveConns :
                              conns[c].at = a /\ conns[c].redirectingBackend = NoAddr})
               + Cardinality({c \in LiveConns : conns[c].redirectingBackend = a})
               + pending[a]
        /\ \A c \in last.emitted : conns[c].live /\ conns[c].phase = phaseRedirectNotify)
  /\ [][\A c \in ConnIds :
          (InFlight(c) /\ OnConnClosed(c)) =>
            LET A == conns[c].at
                B == conns[c].redirectingBackend
            IN /\ A # B
               /\ ConnScoreAt(backends', B) = ConnScoreAt(backends, B) - 1
               /\ ConnScoreAt(backends', A) = ConnScoreAt(backends, A)
               /\ c \in Range(ConnListAt(backends, A))
               /\ ConnListAt(backends', A) =
                    SelectSeq(ConnListAt(backends, A), LAMBDA x : x # c)
               /\ ConnListAt(backends', B) = ConnListAt(backends, B)
               /\ Occurrences(backends', c) = 0
               /\ ~conns'[c].live
               /\ conns'[c].redirectingBackend = NoAddr]_vars

\* C11 witness: a connection picked by rebalance was closed before its redirect
\* finished, and both its source and its target are still in the list.
C11_Witness ==
  /\ mark.kind = "close"
  /\ \E c \in ConnIds :
       /\ mark.cs[c].live /\ ~conns[c].live
       /\ mark.cs[c].at \in AddrsOf(backends)
       /\ Len(backends) = 2
\* C12: a rebalance never calls Redirect for a connection whose redirect is in
\* flight, and a redirect stays in flight, whatever else happens, until the
\* connection's OnRedirectSucceed, OnRedirectFail or OnConnClosed.
C12_OneRedirectInFlight ==
  [][/\ last'.op = "rebalance" =>
          \A c \in last'.emitted : conns[c].live /\ ~InFlight(c) /\ InFlight(c)'
     /\ \A c \in ConnIds :
          (InFlight(c) /\ ~InFlight(c)') =>
            \/ onRedirectFinished(c, TRUE)
            \/ onRedirectFinished(c, FALSE)
            \/ OnConnClosed(c)]_vars

\* C12 witness: a rebalance has just run and picked nothing although the busiest
\* backend is still out of balance, because its connection is being redirected.
C12_Witness ==
  /\ last.op = "rebalance"
  /\ last.emitted = {}
  /\ Len(backends) = 2
  /\ ~RatioLess(score(backends[1]), score(backends[2]) + 1)
  /\ \E c \in Redirecting : c \in Range(backends[1].connList)
TicksResult ==
  rebalanceLoop([bs |-> backends,
                 cs |-> [c \in ConnIds |->
                           [conns[c] EXCEPT !.sinceRedirect = redirectFailMinInterval]],
                 emitted |-> {}],
                rebalanceConnsPerLoop)

AfterTicks == TicksResult.bs

HealthyBackends(bs) == {i \in 1..Len(bs) : bs[i].health.status = StatusHealthy}

\* max_score / (min_score + 1) <= 1.2 over the backends in the list.
Balanced(bs) ==
  \A i \in 1..Len(bs) : \A j \in 1..Len(bs) : 5 * score(bs[i]) <= 6 * (score(bs[j]) + 1)

C16_EvenSpread ==
  mark.kind \in {"route", "reserve"} =>
    /\ AddrsOf(backends) = AddrsOf(mark.bs)
    /\ \A i \in 1..Len(backends) : \A j \in 1..Len(backends) :
         backends[i].connScore - backends[j].connScore <= 1
    /\ \A i \in 1..Len(backends) :
         Len(backends[i].connList) + pending[backends[i].addr] = backends[i].connScore
    /\ ConnCount(backends) + PendingTotal = ScoreSum(backends)
    /\ mark.kind = "reserve" => ConnCount(backends) = 0

\* C16 witness: two backends, two Next calls each followed by Finish(true), one
\* connection attached to each.
C16_Witness ==
  /\ mark.kind = "route"
  /\ PendingTotal = 0
  /\ Len(backends) = 2
  /\ ConnCount(backends) = 2
  /\ \A i \in 1..Len(backends) : Len(backends[i].connList) = 1
\* C17 as stated: OnConnClosed for an address that is not in the list and a
\* connection that was never attached returns nil without a panic and leaves the
\* list as it was.
C17_Original ==
  [][\A a \in Addrs :
       (a \notin AddrsOf(backends) /\ OnConnClosedUnattached(a)) =>
         /\ last'.err = NoRet
         /\ backends' = backends]_vars
\* A list without the version and the error of each backend's health.
Shape(bs) ==
  [i \in 1..Len(bs) |->
     [addr |-> bs[i].addr, status |-> bs[i].health.status,
      connScore |-> bs[i].connScore, connList |-> bs[i].connList]]

\* C18: an error-free snapshot that omits a registered address leaves the same
\* list (backends, order, status, connScore, connList) as the snapshot that
\* reports the address as CannotConnect: the backend is gone if it has no
\* attached connection and connScore <= 0, and otherwise it is in the list as
\* CannotConnect, where Next does not select it.
C18_OmittedIsCannotConnect ==
  \A a \in AddrsOf(backends) : \A snap \in Snapshots : \A order \in Orders :
    snap[a] = Absent =>
      LET told == [snap EXCEPT ![a] = Health(StatusCannotConnect, "", "nil")]
          kept == ConnListAt(backends, a) # <<>> \/ ConnScoreAt(backends, a) > 0
      IN \A omitted \in {healthLoop(backends, snap, order).bs} :
           /\ Shape(omitted) = Shape(healthLoop(backends, told, order).bs)
           /\ (a \in AddrsOf(omitted)) = kept
           /\ \A i \in 1..Len(omitted) : omitted[i].addr = a =>
                /\ omitted[i].health.status = StatusCannotConnect
                /\ omitted[i].connScore = ConnScoreAt(backends, a)
                /\ omitted[i].connList = ConnListAt(backends, a)
                /\ routeCandidate(omitted, {}) # i

\* C18 witness: a backend that a snapshot omitted is still in the list, as
\* CannotConnect, because a connection is attached to it, next to a Healthy one.
C18_Witness ==
  /\ Len(backends) = 2
  /\ \E i \in 1..Len(backends) :
       /\ backends[i].health = Removed
       /\ Len(backends[i].connList) > 0
  /\ \E i \in 1..Len(backends) : backends[i].health.status = StatusHealthy
\* C19: after updateBackendHealth has applied an error-free snapshot with at
\* least one Healthy backend, ServerVersion() is not empty, and it is a version
\* that some snapshot reported.
C19_Original ==
  [][\A snap \in VersionSnapshots :
       (/\ \E a \in Addrs : snap[a].status = StatusHealthy
        /\ updateBackendHealth(snap))
       => /\ serverVersion' # ""
          /\ serverVersion' \in {h.ver : h \in VersionValues}]_vars
\* C20: with an observer attached, Next requests observer.Refresh() exactly when
\* it returns ErrNoBackend: when the list is empty, when every backend in it is
\* unhealthy, and in no call that returns a backend or the latched observe error.
C20_RefreshOnNoBackend ==
  /\ [](last.op = "Next" =>
          /\ last.refresh = (last.err = ErrNoBackend)
          /\ last.refresh => last.ret = NoAddr)
  /\ [][\A ex \in SUBSET Addrs : routeOnce(ex) =>
          /\ last'.refresh = (~observeError /\ routeCandidate(backends, ex) = 0)
          /\ (~observeError /\ HealthyBackends(backends) = {}) =>
               last'.refresh /\ last'.err = ErrNoBackend
          /\ observeError => ~last'.refresh /\ last'.err = ErrObserve]_vars

\* C20 witness: Next has returned ErrNoBackend and requested a refresh with a
\* list that is not empty and holds no Healthy backend.
C20_Witness ==
  /\ last.op = "Next"
  /\ last.err = ErrNoBackend
  /\ last.refresh
  /\ Len(backends) > 0
  /\ HealthyBackends(backends) = {}
\* C21: after Init, a Close that was called returns; once it has returned the
\* control loop has exited, and no snapshot is applied and no tick runs any more.
\* A Close with cancelFunc unset (a second Close, or a router never initialised)
\* touches nothing of the router and returns as well.
C21_CloseStopsLoop ==
  /\ [](life.closed > 0 => life.loop # "running")
  /\ [][/\ life.closed > 0 =>
             /\ observeError' = observeError
             /\ serverVersion' = serverVersion
             /\ \A j \in 1..Len(backends') : \E i \in 1..Len(backends) :
                  /\ backends[i].addr = backends'[j].addr
                  /\ backends[i].health = backends'[j].health
             /\ last'.op = "rebalance" => last' = last
             /\ \A c \in ConnIds :
                  conns'[c].phase = phaseRedirectNotify => conns[c].phase = phaseRedirectNotify
        /\ (life.close = "idle" /\ life'.close = "waiting" /\ ~life.cancelFunc) =>
             /\ UNCHANGED <<backends, conns, pending, observeError, serverVersion>>
             /\ life'.done = life.done /\ life'.loop = life.loop]_vars
  /\ (life.close = "waiting" ~> life.close = "idle")

\* C21 witness: two Close calls have returned on an initialised router whose
\* list holds a backend, and the control loop has exited.
C21_Witness ==
  /\ life.closed = 2
  /\ life.loop = "exited"
  /\ last.op = "Close"
  /\ Len(backends) > 0
\* The three probes of Check pass: the dial, the greeting, and 200 in time.
ProbesPass == ~probe.ctxDone /\ probe.sql /\ probe.greeting /\ probe.http200 /\ ~probe.httpSlow

C26_Original ==
  [][\A j \in 1..Len(backends') :
       backends'[j].addr \notin AddrsOf(backends) =>
         backends'[j].health.status \in {StatusHealthy, StatusCannotConnect}]_vars
\* C27 as stated: a snapshot with an error changes observeError only, and in an
\* error-free snapshot a registered backend reported with the health it has keeps
\* its health, its scores and its position in the list.
C27_Original ==
  /\ [][(observeError' /\ ~observeError) =>
          /\ backends' = backends
          /\ serverVersion' = serverVersion]_vars
  /\ [](\A snap \in Snapshots : \A order \in Orders :
          \A after \in {healthLoop(backends, snap, order).bs} :
            \A i \in 1..Len(backends) :
              Equals(backends[i].health, snap[backends[i].addr]) =>
                i <= Len(after) /\ after[i] = backends[i])

\* C27, amended: a snapshot with an error changes observeError and nothing else of the
\* router.  In an error-free snapshot a registered backend reported with the
\* health it has stays in the list with its health, connScore and connList, and
\* two such backends stay in the order they were in.
C27_HealthFrame ==
  /\ [][(observeError' /\ ~observeError) =>
          /\ backends' = backends
          /\ serverVersion' = serverVersion
          /\ conns' = conns
          /\ pending' = pending]_vars
  /\ [](\A snap \in Snapshots :
          LET same == {i \in 1..Len(backends) : Equals(backends[i].health, snap[backends[i].addr])}
          IN same # {} =>
               \A order \in Orders : \A after \in {healthLoop(backends, snap, order).bs} :
                  \E at \in [same -> 1..Len(after)] :
                    /\ \A i \in same : after[at[i]] = backends[i]
                    /\ \A i, j \in same : i < j => at[i] < at[j])

\* C27 witness: a snapshot with an error has arrived at a router that holds two
\* backends, one of them with a connection, and a version.
C27_Witness ==
  /\ observeError
  /\ last = Quiet
  /\ Len(backends) = 2
  /\ serverVersion # ""
  /\ \E i \in 1..Len(backends) : Len(backends[i].connList) > 0
C29_ConnScoreAccounting ==
  LockFree =>
    \A a \in Addrs :
      LET attached == {c \in ConnIds : c \in Range(ConnListAt(backends, a))
                                         /\ conns[c].phase # phaseRedirectNotify}
          incoming == {c \in LiveConns : conns[c].redirectingBackend = a}
      IN /\ ConnScoreAt(backends, a) = Cardinality(attached) + Cardinality(incoming) + pending[a]
         /\ a \notin AddrsOf(backends) => incoming = {} /\ pending[a] = 0

\* C29 witness: a backend counts three units at once, for a connection
\* attached to it, for a redirect in flight towards it and for a Next call that
\* waits for its Finish.
C29_Witness ==
  /\ LockFree
  /\ \E a \in Addrs :
       /\ pending[a] = 1
       /\ \E c \in LiveConns : conns[c].redirectingBackend = a /\ conns[c].at # a
       /\ \E c \in LiveConns : conns[c].at = a /\ conns[c].phase # phaseRedirectNotify
       /\ ConnScoreAt(backends, a) = 3

\* An address with an attached connection, a redirect in flight towards it or a
\* Next reservation that waits for its Finish.
InUse(cs, pd) ==
  {a \in Addrs : \/ pd[a] > 0
                 \/ \E c \in ConnIds : cs[c].live /\ (cs[c].at = a \/ cs[c].redirectingBackend = a)}

\* C30: a backend in use stays in the list whatever snapshot arrives, with its
\* connList and connScore where they were; its health is changed in place; no
\* connection points at a wrapper that has left the list; and no backend enters
\* the list as CannotConnect, which is how ensureBackend would put one back.
C30_InUseStays ==
  /\ [](/\ InUse(conns, pending) \subseteq AddrsOf(backends)
        /\ \A c \in LiveConns : ~conns[c].stale /\ c \in Range(ConnListAt(backends, conns[c].at)))
  /\ [][/\ \A a \in InUse(conns, pending) \cap InUse(conns', pending') : a \in AddrsOf(backends')
        /\ \A j \in 1..Len(backends') :
             backends'[j].addr \notin AddrsOf(backends) =>
               backends'[j].health.status # StatusCannotConnect
        /\ (conns' = conns /\ pending' = pending /\ backends' # backends) =>
             \A a \in InUse(conns, pending) :
               /\ ConnListAt(backends', a) = ConnListAt(backends, a)
               /\ ConnScoreAt(backends', a) = ConnScoreAt(backends, a)]_vars

\* C30 witness: a backend that a snapshot left out is in the list as
\* CannotConnect with nothing but a Next reservation on it.
C30_Witness ==
  \E i \in 1..Len(backends) :
    /\ backends[i].health = Removed
    /\ backends[i].connList = <<>>
    /\ pending[backends[i].addr] > 0
    /\ \A c \in LiveConns : conns[c].redirectingBackend # backends[i].addr
\* C31: a receive from the subscription channel after the observer has closed
\* it is not taken as a snapshot: it leaves the list, with every backend's
\* health, connScore and connList, as it is, and the loop goes on.
C31_Original ==
  [][ClosedReceive => backends' = backends /\ last'.err # ErrPanic]_vars
====
